---------------------------- MODULE Spec2Model ----------------------------
(***************************************************************************)
(* Model of the MPC engine of the PEM dashboard: the strategies of         *)
(* RealKenyaNeuralMPC (src/unnamed/part_004), the two MPCComparator        *)
(* classes (src/mpc-comparator.js, src/unnamed/part_008), the              *)
(* /api/mpc/compare handlers (src/app.js), the browser dashboard           *)
(* (src/unnamed/part_006), the scenario generator and the economic         *)
(* schedule of MPCAlgorithms (src/mpc-algorithms.js), forwardToMATLAB      *)
(* (src/simulink-bridge.js), applyControl (src/neural-mpc.js), and the     *)
(* MQTTClient and the TCP SimulinkBridge of src/mqtt.js.                   *)
(*                                                                         *)
(* Numbers.  JavaScript doubles are modelled as fixed-point integers in    *)
(* units of 1/SCALE; a product with a decimal coefficient is written as a  *)
(* multiplication by its numerator followed by \div by its denominator.    *)
(* NaN and undefined are the separate values NaN and Undefined.            *)
(***************************************************************************)
EXTENDS Integers, Sequences, FiniteSets, TLC

VARIABLES
    \* ---- strategies of RealKenyaNeuralMPC (part_004)
    currentState,     \* <<temperature, efficiency>> handed to a strategy
    setpoints,        \* [temperature, efficiency]
    decision,         \* the object the last strategy call returned
    \* ---- MPCComparator of mpc-comparator.js
    historicalData,   \* this.historicalData
    performanceMetrics, \* this.performanceMetrics
    calls,            \* computeControl invocations in flight
    evalLoop,         \* position of evaluateMPC / fetchMPCComparison
    nCalls,           \* number of computeControl calls made so far
    \* ---- MPCComparator of part_008
    tasks,            \* strategy -> state of its promise in the running comparison
    cmpPhase,         \* number and phase of the last runAllMPCComparison call
    cmpOut,           \* what its caller got
    performanceHistory, \* this.performanceHistory
    clock,            \* strategy -> has the time allowed to the strategy passed?
    \* ---- /api/mpc/compare
    server,           \* which app.js listens
    weatherUp,        \* is the weather API reachable
    req,              \* request id -> how far its handler has come
    response,         \* request id -> the response sent
    \* ---- MPCDashboard of part_006
    inflight,         \* runComparison calls whose fetch has not been answered
    generation,       \* number of runComparison calls so far
    currentData,      \* this.currentData: the call it came from and what it is
    applied,          \* the calls whose data updateDashboard showed, in order
    \* ---- one strategy function applied to arguments chosen by its caller
    input,            \* the arguments
    output,           \* function -> what it returned for these arguments
    \* ---- the plant side: schedule, MATLAB hand-off, applied control
    schedule,         \* what optimizeEconomicSchedule returned last
    sent,             \* the messages handed to mqttClient.sendToMATLAB
    plant,            \* currentState.current of neuralMPC and the last applyControl answer
    \* ---- MQTTClient of mqtt.js and the Paho clients it creates
    mqtt,             \* client, isConnected, reconnectAttempts, subscribedTopics
    paho,             \* Paho client id -> state of its connection
    subs,             \* Paho client id -> topics a subscribe request was issued for
    acks,             \* subscribe requests whose onSuccess / onFailure is outstanding
    timers,           \* number of pending setTimeout(connect) timers
    \* ---- SimulinkBridge of mqtt.js (TCP)
    bridge,           \* this.clients (keys), this.isConnected, is the server listening
    sockets           \* socket id -> state of the socket

stratVars == <<currentState, setpoints, decision>>
compVars  == <<historicalData, performanceMetrics, calls, evalLoop, nCalls>>
allVars   == <<tasks, cmpPhase, cmpOut, performanceHistory, clock>>
srvVars   == <<server, weatherUp, req, response>>
dashVars  == <<inflight, generation, currentData, applied>>
fnVars    == <<input, output>>
plantVars == <<schedule, sent, plant>>
netVars   == <<mqtt, paho, subs, acks, timers, bridge, sockets>>
vars == <<stratVars, compVars, allVars, srvVars, dashVars, fnVars, plantVars, netVars>>

-----------------------------------------------------------------------------
(* Fixed point *)
SCALE == 10 * 1000

Fx(n) == n * SCALE

Max(a, b) == IF a >= b THEN a ELSE b
Min(a, b) == IF a <= b THEN a ELSE b

\* x*x in units of 1/SCALE, for |x| up to 4000 units
Sq(x) == (x \div 100) * (x \div 100)


Clamp(lo, hi, x) == Max(lo, Min(hi, x))

-----------------------------------------------------------------------------
(***************************************************************************)
(* RealKenyaNeuralMPC (src/unnamed/part_004)                               *)
(***************************************************************************)
predictionHorizon == 10
iterations == 50

\* getPEMModel: A and B in hundredths
PEM_A == <<<<95, 2>>, <<-1, 98>>>>
PEM_B == <<10, 5>>

\* the weights standardMPC builds with matrixDiag, in tenths: Q = diag(1, 0.5), R = (0.1)
StdQ == <<10, 5>>
StdR == 1

\* the gradient with the control term 2 * current / (100 * R[0][0])
calculateCostGradientOverR(current, state, sp, Q, R) ==
    LET tempError == state[1] + current \div 10 - sp.temperature
        effError  == state[2] + (5 * current) \div 100 - sp.efficiency
    IN  (2 * Q[1] * tempError) \div 100
        + (2 * Q[2] * effError * 5) \div 1000
        + (2 * current) \div (10 * R)

\* tempError and effError use the literal gains 0.1 and 0.05
calculateCostGradient(current, state, sp, Q, R) ==
    LET tempError == state[1] + current \div 10 - sp.temperature
        effError  == state[2] + (5 * current) \div 100 - sp.efficiency
    IN  (2 * Q[1] * tempError) \div 100
        + (2 * Q[2] * effError * 5) \div 1000
        + (2 * R * current) \div 10

\* one iteration of the loop of solveQP: a gradient step with learningRate 0.1,
\* then the clamp to [100, 200]
descentStep(state, sp, Q, R) ==
    [current \in Int |->
        LET gradient == calculateCostGradient(current, state, sp, Q, R)
        IN  Clamp(Fx(100), Fx(200), current - gradient \div 10)]

\* gradient descent from the initial guess 150: `iterations` steps, evaluated
\* five at a time
solveQP(state, sp, Q, R) ==
    LET step == descentStep(state, sp, Q, R)
        five == [c \in Int |-> step[step[step[step[step[c]]]]]]
        current[block \in 0..(iterations \div 5)] ==
            IF block = 0 THEN Fx(150) ELSE five[current[block - 1]]
    IN  <<current[iterations \div 5]>>

stepPEM(state, control) ==
    << (PEM_A[1][1] * state[1] + PEM_A[1][2] * state[2] + PEM_B[1] * control) \div 100,
       (PEM_A[2][1] * state[1] + PEM_A[2][2] * state[2] + PEM_B[2] * control) \div 100 >>

\* the loop of predictTrajectory reading controlSequence[0] at every step
trajectoryStatesFirstControl(initialState, controlSequence, steps) ==
    LET state[i \in 0..steps] ==
            IF i = 0 THEN initialState
            ELSE stepPEM(state[i - 1], controlSequence[1])
    IN  [k \in 1..(steps + 1) |-> state[k - 1]]

\* the states the loop of predictTrajectory visits: control k while k is inside
\* the sequence, the last control afterwards
trajectoryStates(initialState, controlSequence, steps) ==
    LET state[i \in 0..steps] ==
            IF i = 0 THEN initialState
            ELSE stepPEM(state[i - 1],
                         controlSequence[Min(i - 1, Len(controlSequence) - 1) + 1])
    IN  [k \in 1..(steps + 1) |-> state[k - 1]]

\* predictTrajectory with the loop condition i <= this.predictionHorizon
predictTrajectoryOneMore(initialState, controlSequence) ==
    trajectoryStates(initialState, controlSequence, predictionHorizon + 1)

predictTrajectory(initialState, controlSequence) ==
    trajectoryStates(initialState, controlSequence, predictionHorizon)

RECURSIVE calculateCost(_, _, _, _)
calculateCost(controlSequence, sp, Q, R) ==
    IF controlSequence = <<>> THEN 0
    ELSE (Q[1] * Sq(sp.temperature - Fx(70))) \div 10
         + (Q[2] * Sq(sp.efficiency - Fx(75))) \div 10
         + (R * Sq(Head(controlSequence))) \div 10
         + calculateCost(Tail(controlSequence), sp, Q, R)

\* A decision is a JavaScript object: `fields` lists the keys it has; a key
\* that is not in `fields` reads as undefined whatever the record holds there.
NoDecision ==
    [type |-> "none", fields |-> {}, optimal_current |-> 0, predicted_states |-> <<>>,
     cost |-> 0, operational_trajectory |-> <<>>, total_cost |-> 0, expected_cost |-> 0,
     scenarios |-> 0, neural_correction |-> 0]

standardMPC(state, sp) ==
    LET optimalSequence == solveQP(state, sp, StdQ, StdR)
    IN  [NoDecision EXCEPT
            !.type = "Standard-MPC",
            !.fields = {"optimal_current", "predicted_states", "cost", "computation_time", "type"},
            !.optimal_current = optimalSequence[1],
            !.predicted_states = predictTrajectory(state, optimalSequence),
            !.cost = calculateCost(optimalSequence, sp, StdQ, StdR)]

\* placeholder: { continuous: [165], binary: [1], cost: 4.05, time: 0.15 }, no trajectory
solveMIQP ==
    [continuous |-> <<Fx(165)>>, binary |-> <<1>>, cost |-> 40500, fields |-> {"continuous", "binary", "cost", "time"}]

mixedIntegerMPC(state, sp) ==
    LET solution == solveMIQP
    IN  [NoDecision EXCEPT
            !.type = "MixedInteger-MPC",
            \* predicted_states: solution.trajectory is undefined
            !.fields = {"optimal_current", "binary_decisions", "cost", "computation_time", "type"}
                       \cup (IF "trajectory" \in solution.fields THEN {"predicted_states"} ELSE {}),
            !.optimal_current = solution.continuous[1],
            !.cost = solution.cost]

generateUncertaintyScenarios == << [probability |-> SCALE] >>

RECURSIVE sumCurrent(_)
sumCurrent(controls) ==
    IF controls = <<>> THEN 0 ELSE Head(controls).optimal_current + sumCurrent(Tail(controls))

computeRobustAverage(controls) == sumCurrent(controls) \div Len(controls)

RECURSIVE expectedCost(_, _)
expectedCost(scenarios, solutions) ==
    IF scenarios = <<>> THEN 0
    ELSE (Head(solutions).cost \div 100) * (Head(scenarios).probability \div 100)
         + expectedCost(Tail(scenarios), Tail(solutions))

stochasticMPC(state, sp) ==
    LET scenarios == generateUncertaintyScenarios
        \* applyUncertainty returns the model unchanged; every scenario re-solves standardMPC
        scenarioControls == [i \in 1..Len(scenarios) |-> standardMPC(state, sp)]
    IN  [NoDecision EXCEPT
            !.type = "Stochastic-MPC",
            !.fields = {"optimal_current", "scenarios", "expected_cost", "risk_metrics", "type"},
            !.optimal_current = computeRobustAverage(scenarioControls),
            !.scenarios = Len(scenarioControls),
            !.expected_cost = expectedCost(scenarios, scenarioControls)]

economicOptimization ==
    [setpoints |-> [temperature |-> Fx(70), efficiency |-> Fx(75)], cost |-> 35000]

neuralNetworkPrediction == [current_adjustment |-> Fx(2)]

combineLayers(operational, neural, economic) ==
    [current |-> operational.optimal_current + neural.current_adjustment]

heNMPC(state) ==
    LET economicOptimum    == economicOptimization
        operationalOptimum == standardMPC(state, economicOptimum.setpoints)
        neuralCorrection   == neuralNetworkPrediction
        finalControl       == combineLayers(operationalOptimum, neuralCorrection, economicOptimum)
    IN  [NoDecision EXCEPT
            !.type = "HE-NMPC",
            !.fields = {"optimal_current", "economic_setpoints", "neural_correction",
                        "operational_trajectory", "total_cost", "type"},
            !.optimal_current = finalControl.current,
            !.neural_correction = neuralCorrection.current_adjustment,
            !.operational_trajectory = operationalOptimum.predicted_states,
            !.total_cost = economicOptimum.cost + operationalOptimum.cost]


-----------------------------------------------------------------------------
(***************************************************************************)
(* MPCComparator (src/mpc-comparator.js)                                   *)
(***************************************************************************)
\* JavaScript values that can be a number, NaN or undefined
Num(v) == [k |-> "num", v |-> v]
NaN == [k |-> "NaN", v |-> 0]
Undefined == [k |-> "undefined", v |-> 0]

\* a + b and a - b / c style arithmetic: anything but two numbers gives NaN
jsAdd(a, b) == IF a.k = "num" /\ b.k = "num" THEN Num(a.v + b.v) ELSE NaN
isFinite(a) == a.k = "num"

mpcTypes == <<"DETERMINISTIC_MPC", "STOCHASTIC_MPC", "ROBUST_MPC", "HYBRID_MPC", "HE_NMPC">>
MpcTypeSet == {mpcTypes[i] : i \in 1..Len(mpcTypes)}

\* this.constraints
currentMin == 100
currentMax == 200
temperatureMax == 80
voltageMax == 45
purityMin == 99
numScenarios == 50

\* systemModel: Q[1][1] = 10 and R[0][0] = 0.1, in tenths; A[1][1] = 0.98 in hundredths
Q11 == 100
R00 == 1
A11 == 98
\* getWorstCaseParameters: Q[1][1] = 12, in tenths
worstQ11 == 120

\* a setpoint object { productionRate }, or null
Setpoint(rate) == [k |-> "object", productionRate |-> rate]
NullSetpoint == [k |-> "null", productionRate |-> 0]

Abs(x) == IF x < 0 THEN -x ELSE x

calculatePerformance(current, setpoint) ==
    LET production    == (current * 42) \div 100000
        trackingError == Abs(production - setpoint.productionRate)
    IN  [productionRate |-> production,
         trackingError |-> trackingError,
         efficiency |-> Max(0, Fx(60) - trackingError * 10),
         setpointAchievement |-> Max(0, Fx(100) - trackingError * 50)]

\* a cost object {total, energy, degradation, value}
calculateEconomicCost(current) ==
    LET power           == (current * 38) \div 1000
        energyCost      == (power * 12) \div 100
        degradationCost == (current * 2) \div 100000
        productionValue == (current * 756) \div 125     \* 0.00042 * 4.0 * 3600
    IN  [k |-> "object", total |-> energyCost + degradationCost - productionValue,
         energy |-> energyCost, degradation |-> degradationCost,
         value |-> productionValue, v |-> 0]

\* a cost that is a bare number
NumberCost(n) ==
    [k |-> "num", total |-> 0, energy |-> 0, degradation |-> 0, value |-> 0, v |-> n]

\* result.cost.total
costTotal(cost) == IF cost.k = "object" THEN Num(cost.total) ELSE Undefined

checkConstraints(current) ==
    LET temp    == Fx(65) + (current - Fx(150)) \div 10
        purity  == 995000 - (current - Fx(150)) \div 100
        voltage == Fx(38) + (5 * (current - Fx(150))) \div 100
    IN  [temperature |-> [value |-> temp, violated |-> temp > Fx(temperatureMax)],
         purity |-> [value |-> purity, violated |-> purity < Fx(purityMin)],
         voltage |-> [value |-> voltage, violated |-> voltage > Fx(voltageMax)],
         current |-> [value |-> current,
                      violated |-> current > Fx(currentMax) \/ current < Fx(currentMin)]]

isFeasible(current) ==
    LET c == checkConstraints(current)
    IN  ~(c.temperature.violated \/ c.purity.violated \/ c.voltage.violated \/ c.current.violated)

calculateRobustness(current) ==
    LET c == checkConstraints(current)
        temperature == (Fx(temperatureMax) - c.temperature.value) \div 10
        purity      == (c.purity.value - Fx(purityMin)) * 2
        voltage     == (Fx(voltageMax) - c.voltage.value) \div 2
    IN  Min(temperature, Min(purity, voltage))

\* a result object; reliability, robustness are undefined unless the strategy sets them
Result(current, perf, cost, reliability, robustness) ==
    [optimalCurrent |-> current, performance |-> perf, cost |-> cost,
     reliability |-> reliability, robustness |-> robustness]

\* -f / H with H = 2 (R + q) and f = -2 q productionRate, q and R in tenths
unconstrainedOptimum(q, r, rate) == (2 * q * rate) \div (2 * (r + q))

deterministicMPC(setpoint) ==
    LET optimalCurrent ==
            Clamp(Fx(currentMin), Fx(currentMax),
                  unconstrainedOptimum(Q11, R00, setpoint.productionRate))
    IN  Result(optimalCurrent, calculatePerformance(optimalCurrent, setpoint),
               calculateEconomicCost(optimalCurrent), Undefined, Undefined)

\* a in hundredths, R = 0.1 is 10 hundredths
solveQPWithUncertainty(a, setpoint) ==
    Clamp(Fx(currentMin), Fx(currentMax),
          (2 * a * setpoint.productionRate) \div (2 * (10 * R00 + a)))

RECURSIVE SumSeq(_)
SumSeq(q) ==
    IF Len(q) = 0 THEN 0
    ELSE IF Len(q) = 1 THEN q[1]
    ELSE LET m == Len(q) \div 2
         IN  SumSeq(SubSeq(q, 1, m)) + SumSeq(SubSeq(q, m + 1, Len(q)))

\* the noise math.random(-0.05, 0.05) adds to A[1][1] in scenario i, in hundredths:
\* the draws of one call are a rotation, chosen by `seed`, of this cycle
NoiseCycle == <<-5, 0, 4>>
noiseOf(i, seed) == NoiseCycle[((i + seed) % Len(NoiseCycle)) + 1]

\* stochasticMPC with isFeasible answering false for every scenario
stochasticMPC_NoneFeasible(setpoint, seed) ==
    LET optimalCurrent == Fx(150)
    IN  Result(optimalCurrent, calculatePerformance(optimalCurrent, setpoint),
               calculateEconomicCost(optimalCurrent), Num(0), Undefined)

\* the loop adds the current of every feasible scenario and counts them
stochasticMPC_C(setpoint, seed) ==
    LET scenarioCurrent ==
            [i \in 1..numScenarios |->
                solveQPWithUncertainty(A11 + noiseOf(i - 1, seed), setpoint)]
        totalCurrent ==
            SumSeq([i \in 1..numScenarios |->
                      IF isFeasible(scenarioCurrent[i]) THEN scenarioCurrent[i] ELSE 0])
        feasibleScenarios ==
            Cardinality({i \in 1..numScenarios : isFeasible(scenarioCurrent[i])})
        optimalCurrent ==
            IF feasibleScenarios > 0 THEN totalCurrent \div feasibleScenarios ELSE Fx(150)
    IN  Result(optimalCurrent, calculatePerformance(optimalCurrent, setpoint),
               calculateEconomicCost(optimalCurrent),
               Num((feasibleScenarios * SCALE) \div numScenarios), Undefined)

\* the results of stochasticMPC_C for the setpoints and draws the actions use,
\* computed once
ProductionRates == {Fx(50), 600, Fx(150)}
Seeds == {0, 1}
stochasticResults ==
    [rate \in ProductionRates \cup {Fx(150), Fx(250)}, seed \in Seeds |->
        stochasticMPC_C(Setpoint(rate), seed)]

stochasticMPC_memo(setpoint, seed) ==
    IF setpoint.productionRate \in ProductionRates \cup {Fx(150), Fx(250)} /\ seed \in Seeds
    THEN stochasticResults[setpoint.productionRate, seed]
    ELSE stochasticMPC_C(setpoint, seed)

\* scenarioCurrent of every pass of the loop of stochasticMPC, for the same
\* setpoints and draws
scenarioCurrents ==
    [rate \in ProductionRates \cup {Fx(150), Fx(250)}, seed \in Seeds |->
        [i \in 1..numScenarios |->
            solveQPWithUncertainty(A11 + noiseOf(i - 1, seed), Setpoint(rate))]]

\* robustMPC clamping to the nominal bounds
robustMPCNominalBounds(setpoint) ==
    LET optimalCurrent ==
            Clamp(Fx(currentMin), Fx(currentMax),
                  unconstrainedOptimum(worstQ11, R00, setpoint.productionRate))
    IN  Result(optimalCurrent, calculatePerformance(optimalCurrent, setpoint),
               calculateEconomicCost(optimalCurrent), Undefined,
               Num(calculateRobustness(optimalCurrent)))

robustMPC(setpoint) ==
    LET robustMin == Fx(currentMin) + Fx(5)
        robustMax == Fx(currentMax) - Fx(5)
        optimalCurrent ==
            Clamp(robustMin, robustMax,
                  unconstrainedOptimum(worstQ11, R00, setpoint.productionRate))
    IN  Result(optimalCurrent, calculatePerformance(optimalCurrent, setpoint),
               calculateEconomicCost(optimalCurrent), Undefined,
               Num(calculateRobustness(optimalCurrent)))

LastN(q, n) == IF Len(q) <= n THEN q ELSE SubSeq(q, Len(q) - n + 1, Len(q))

\* reads this.historicalData
calculateUncertainty(history) ==
    IF Len(history) < 2 THEN SCALE \div 2
    ELSE LET recentData == LastN(history, 10)
             variances  == [i \in 1..Len(recentData) |-> recentData[i].trackingError]
             mean       == SumSeq(variances) \div Len(variances)
             variance   == SumSeq([i \in 1..Len(variances) |-> Sq(variances[i] - mean)])
                               \div Len(variances)
         IN  Min(SCALE, variance * 10)

hybridMPC(setpoint, seed, history) ==
    LET detResult   == deterministicMPC(setpoint)
        stochResult == stochasticMPC_memo(setpoint, seed)
        uncertaintyLevel == calculateUncertainty(history)
        weight == (3 * SCALE) \div 10 + (4 * uncertaintyLevel) \div 10
        optimalCurrent ==
            ((weight \div 100) * (stochResult.optimalCurrent \div 100)
             + ((SCALE - weight) \div 100) * (detResult.optimalCurrent \div 100))
    IN  Result(optimalCurrent, calculatePerformance(optimalCurrent, setpoint),
               calculateEconomicCost(optimalCurrent), Undefined, Undefined)

Infinity == [k |-> "Infinity", v |-> 0]

\* sin(h * pi / 12) for h = 0..23, in units of 1/SCALE
SinTable ==
    <<0, 2588, 5000, 7071, 8660, 9659, 10000, 9659, 8660, 7071, 5000, 2588,
      0, -2588, -5000, -7071, -8660, -9659, -10000, -9659, -8660, -7071, -5000, -2588>>

\* electricityPrice = 0.12
calculateTotalCost(current, horizon) ==
    LET power == (current * 38) \div 1000
        timeVaryingPrice(h) == (1200 * (SCALE + (3 * SinTable[h + 1]) \div 10)) \div SCALE
    IN  SumSeq([i \in 1..horizon |-> (power * timeVaryingPrice(i - 1)) \div SCALE])

\* scans current = min, min + 5, ..., max and keeps the first cheapest; minCost
\* starts at Infinity and optimalCurrent at 150
economicLayerOptimization ==
    LET horizon == 24
        last == (currentMax - currentMin) \div 5
        cost == [i \in 0..last |-> calculateTotalCost(Fx(currentMin) + i * Fx(5), horizon)]
        \* cost < minCost succeeds at i exactly when cost[i] is below every earlier cost
        improving == {i \in 0..last : \A j \in 0..(i - 1) : cost[i] < cost[j]}
        best == CHOOSE i \in improving : \A j \in improving : j <= i
    IN  IF improving = {}
        THEN [optimalCurrent |-> Fx(150), cost |-> Infinity]
        ELSE [optimalCurrent |-> Fx(currentMin) + best * Fx(5), cost |-> Num(cost[best])]

\* neuralPrediction.temperatureRisk > 0.7 and .purityRisk > 0.8 are the two
\* outcomes of the random draws the layer acts on
safetyLayerOptimization(economicResult, temperatureRiskHigh, purityRiskHigh) ==
    LET c0 == economicResult.optimalCurrent
        c1 == IF temperatureRiskHigh THEN Max(Fx(currentMin), c0 - Fx(20)) ELSE c0
        safeCurrent == IF purityRiskHigh THEN Max(Fx(currentMin), c1 - Fx(15)) ELSE c1
    IN  [optimalCurrent |-> safeCurrent,
         performance |-> calculatePerformance(safeCurrent, Setpoint(Fx(50)))]

\* cost: economicLayer.cost is the number minCost, not a cost object
heNMPC_C(temperatureRiskHigh, purityRiskHigh) ==
    LET economicLayer == economicLayerOptimization
        safetyLayer   == safetyLayerOptimization(economicLayer, temperatureRiskHigh, purityRiskHigh)
    IN  Result(safetyLayer.optimalCurrent, safetyLayer.performance,
               IF economicLayer.cost.k = "num" THEN NumberCost(economicLayer.cost.v)
               ELSE [NumberCost(0) EXCEPT !.k = economicLayer.cost.k],
               Undefined, Undefined)

\* the entry of this.performanceMetrics[mpcType] before its first computation
NewMetrics ==
    [totalComputations |-> 0, totalTime |-> 0, averageTime |-> 0, successRate |-> 0,
     totalCost |-> Num(0)]

\* the metrics part of trackPerformance
trackMetrics(metrics, result, computationTime) ==
    LET n == metrics.totalComputations + 1
        totalTime == metrics.totalTime + computationTime
    IN  [totalComputations |-> n,
         totalTime |-> totalTime,
         averageTime |-> (totalTime * SCALE) \div n,
         totalCost |-> jsAdd(metrics.totalCost, costTotal(result.cost)),
         successRate |->
            IF result.performance.setpointAchievement > Fx(90)
            THEN (metrics.successRate * (n - 1) + SCALE) \div n
            ELSE metrics.successRate]

\* this.maxHistory (1000 in the source), scaled
maxHistory == 3

\* what the model keeps of an entry of this.historicalData; timestamp is the
\* number of the computeControl call that wrote it
HistoryEntry(mpcType, result, timestamp) ==
    [mpcType |-> mpcType, trackingError |-> result.performance.trackingError,
     optimalCurrent |-> result.optimalCurrent, timestamp |-> timestamp]

\* st holds historicalData and performanceMetrics
trackPerformance(st, mpcType, result, computationTime, timestamp) ==
    LET old == IF mpcType \in DOMAIN st.performanceMetrics
               THEN st.performanceMetrics[mpcType] ELSE NewMetrics
        pushed == Append(st.historicalData, HistoryEntry(mpcType, result, timestamp))
    IN  [performanceMetrics |->
            [t \in DOMAIN st.performanceMetrics \cup {mpcType} |->
                IF t = mpcType THEN trackMetrics(old, result, computationTime)
                ELSE st.performanceMetrics[t]],
         historicalData |-> IF Len(pushed) > maxHistory THEN Tail(pushed) ELSE pushed]

\* methods[mpcType]() for the four synchronous strategies
syncStrategy(mpcType, setpoint, seed, history) ==
    CASE mpcType = "DETERMINISTIC_MPC" -> deterministicMPC(setpoint)
      [] mpcType = "STOCHASTIC_MPC"    -> stochasticMPC_memo(setpoint, seed)
      [] mpcType = "ROBUST_MPC"        -> robustMPC(setpoint)
      [] mpcType = "HYBRID_MPC"        -> hybridMPC(setpoint, seed, history)

\* reading setpoint.productionRate of null throws a TypeError; heNMPC never reads it
strategyThrows(mpcType, setpoint) == mpcType # "HE_NMPC" /\ setpoint.k = "null"

\* what computeControl returns: {...result, mpcType, computationTime, timestamp}
ControlResult(mpcType, result, computationTime) ==
    [type |-> mpcType, optimalCurrent |-> result.optimalCurrent,
     setpointAchievement |-> result.performance.setpointAchievement,
     costTotal |-> costTotal(result.cost), reliability |-> result.reliability,
     robustness |-> result.robustness, computationTime |-> computationTime]

\* a || b for a possibly undefined number a
jsOr(a, b) == IF a.k = "num" /\ a.v # 0 THEN a.v ELSE b

\* weights 0.3, 0.25, 0.15, 0.2, 0.1; an undefined cost.total makes the sum NaN
calculateMPCScore(result) ==
    LET performanceScore == result.setpointAchievement \div 100
        timeScore        == Max(0, SCALE - result.computationTime * (SCALE \div 1000))
        reliabilityScore == jsOr(result.reliability, 9500)
        robustnessScore  == jsOr(result.robustness, 8000)
    IN  IF ~isFinite(result.costTotal) THEN NaN
        ELSE LET costScore == Max(0, SCALE - result.costTotal.v \div 10)
             IN  Num((performanceScore * 30 + costScore * 25 + timeScore * 15
                      + reliabilityScore * 20 + robustnessScore * 10) \div 100)

\* b.score - a.score
byScoreDescending(a, b) ==
    IF isFinite(a.score) /\ isFinite(b.score) THEN b.score.v - a.score.v ELSE 0

\* Array.prototype.sort with the comparator byScoreDescending: stable; a positive
\* comparison puts b first, and a NaN returned by the comparator counts as 0
sort(entries) ==
    LET insert(acc, x) ==
            LET keep == {j \in 1..Len(acc) : byScoreDescending(acc[j], x) <= 0}
                pos  == IF keep = {} THEN 0 ELSE CHOOSE j \in keep : \A k \in keep : k <= j
            IN  SubSeq(acc, 1, pos) \o <<x>> \o SubSeq(acc, pos + 1, Len(acc))
        sorted[i \in 0..Len(entries)] ==
            IF i = 0 THEN <<>> ELSE insert(sorted[i - 1], entries[i])
    IN  sorted[Len(entries)]

rankMPCPerformance(results) ==
    sort([i \in 1..Len(results) |->
            [type |-> results[i].type, score |-> calculateMPCScore(results[i])]])

-----------------------------------------------------------------------------
(***************************************************************************)
(* Idle values of each group of variables, for the specifications that do  *)
(* not exercise the group.                                                 *)
(***************************************************************************)
StratIdle ==
    /\ currentState = <<0, 0>>
    /\ setpoints = [temperature |-> 0, efficiency |-> 0]
    /\ decision = NoDecision

\* no evaluateMPC has been called
IdleLoop == [phase |-> "idle", sp |-> NullSetpoint, results |-> <<>>, ranking |-> <<>>]

CompIdle ==
    /\ historicalData = <<>>
    /\ performanceMetrics = <<>>
    /\ calls = {}
    /\ evalLoop = IdleLoop
    /\ nCalls = 0

\* the promises of runAllMPCComparison, in the order of the array, by the type
\* their result carries
strategyTypes == <<"Standard-MPC", "MixedInteger-MPC", "Stochastic-MPC", "HEMPC", "HE-NMPC">>
StrategyTypeSet == {strategyTypes[i] : i \in 1..Len(strategyTypes)}

NoOutcome == [k |-> "none", ranking |-> <<>>]

AllIdle ==
    /\ tasks = [s \in StrategyTypeSet |-> "idle"]
    /\ cmpPhase = [run |-> 0, phase |-> "idle"]
    /\ cmpOut = NoOutcome
    /\ performanceHistory = <<>>
    /\ clock = [s \in StrategyTypeSet |-> FALSE]

\* number of /api/mpc/compare requests and of runComparison calls in one behaviour
MaxRequests == 3
MaxGenerations == 4

NoResponse == [status |-> 0, error |-> "none", ranking |-> <<>>, individual_results |-> {}]

SrvIdle ==
    /\ server = "none"
    /\ weatherUp = TRUE
    /\ req = [id \in 1..MaxRequests |-> "none"]
    /\ response = [id \in 1..MaxRequests |-> NoResponse]

\* this.currentData = null
NoData == [generation |-> 0, kind |-> "null"]

DashIdle ==
    /\ inflight = {}
    /\ generation = 0
    /\ currentData = NoData
    /\ applied = <<>>

\* no function has been applied yet
NoOutput ==
    [solveQP |-> [done |-> FALSE, R |-> 0, current |-> 0],
     predictTrajectory |-> [done |-> FALSE, trajectory |-> <<>>],
     deterministicMPC |-> [done |-> FALSE, optimalCurrent |-> 0],
     robustMPC |-> [done |-> FALSE, optimalCurrent |-> 0, robustness |-> Undefined],
     stochasticMPC |-> [done |-> FALSE, seed |-> 0, optimalCurrent |-> 0,
                        reliability |-> Undefined],
     generateScenarios |-> [done |-> FALSE, scenarios |-> <<>>]]

FnIdle ==
    /\ input = [currentState |-> <<0, 0>>, controlSequence |-> <<>>,
                setpoint |-> NullSetpoint]
    /\ output = NoOutput

\* the plant side before any call: neuralMPC.currentState.current is 177
PlantIdle ==
    /\ schedule = [done |-> FALSE, hour |-> 0, production |-> <<>>]
    /\ sent = {}
    /\ plant = [current |-> Fx(177), previous_current |-> 0, new_current |-> 0,
                mpc_type |-> "none", status |-> "none"]

\* Paho clients alive at a time, pending reconnect timers and TCP sockets the
\* model follows
MaxClients == 2
MaxTimers == 2
MaxSockets == 4

\* the MQTTClient and the SimulinkBridge after their constructors
NetIdle ==
    /\ mqtt = [client |-> 0, isConnected |-> FALSE, reconnectAttempts |-> 0,
               subscribedTopics |-> {}]
    /\ paho = [id \in 1..MaxClients |-> "none"]
    /\ subs = [id \in 1..MaxClients |-> {}]
    /\ acks = {}
    /\ timers = 0
    /\ bridge = [clients |-> {}, isConnected |-> FALSE, listening |-> TRUE]
    /\ sockets = [id \in 1..MaxSockets |-> "none"]

-----------------------------------------------------------------------------
(***************************************************************************)
(* SpecStrategies: the four strategies of part_004 applied to a state and  *)
(* setpoints supplied by the caller.                                       *)
(***************************************************************************)
\* [temperature, efficiency]: plant readings around the operating point of
\* runCompleteSystem ([65.9, 72.5]) and readings far outside it (the strategies
\* take the array as it is given, without validation)
Temperatures == {Fx(-200), Fx(-50), Fx(20), 659000, Fx(90)}
Efficiencies == {0, 725000, Fx(100)}
SetTemperatures == {Fx(70), Fx(80)}
SetEfficiencies == {Fx(75), Fx(90)}

InitStrategies ==
    /\ currentState \in Temperatures \X Efficiencies
    /\ setpoints \in [temperature : SetTemperatures, efficiency : SetEfficiencies]
    /\ decision = NoDecision
    /\ CompIdle /\ AllIdle /\ SrvIdle /\ DashIdle /\ FnIdle /\ PlantIdle /\ NetIdle

RunStandardMPC ==
    /\ decision' = standardMPC(currentState, setpoints)
    /\ UNCHANGED <<currentState, setpoints, compVars, allVars, srvVars, dashVars, plantVars, netVars, fnVars>>

RunMixedIntegerMPC ==
    /\ decision' = mixedIntegerMPC(currentState, setpoints)
    /\ UNCHANGED <<currentState, setpoints, compVars, allVars, srvVars, dashVars, plantVars, netVars, fnVars>>

RunStochasticMPC ==
    /\ decision' = stochasticMPC(currentState, setpoints)
    /\ UNCHANGED <<currentState, setpoints, compVars, allVars, srvVars, dashVars, plantVars, netVars, fnVars>>

RunHeNMPC ==
    /\ decision' = heNMPC(currentState)
    /\ UNCHANGED <<currentState, setpoints, compVars, allVars, srvVars, dashVars, plantVars, netVars, fnVars>>

NextStrategies ==
    \/ RunStandardMPC
    \/ RunMixedIntegerMPC
    \/ RunStochasticMPC
    \/ RunHeNMPC

SpecStrategies == InitStrategies /\ [][NextStrategies]_vars

\* C1: the control of every returned decision lies in the input bounds [100, 200],
\* also after the neural correction has been added.
C1_ControlWithinBounds ==
    "optimal_current" \in decision.fields
        => /\ decision.optimal_current >= Fx(100)
           /\ decision.optimal_current <= Fx(200)

enhanceSafetyConstraints == [current |-> [min |-> 110, max |-> 190]]

\* C15: the hierarchical strategy ends with the safety-constrained stage, after the
\* learned correction: its final control lies in the tightened bounds [110, 190].
C15_FinalControlInTightenedBounds ==
    decision.type = "HE-NMPC"
        => /\ decision.optimal_current >= Fx(enhanceSafetyConstraints.current.min)
           /\ decision.optimal_current <= Fx(enhanceSafetyConstraints.current.max)

\* discreteLevels of mixedIntegerMPC (MPCAlgorithms)
discreteLevels == <<100, 120, 140, 160, 180, 200>>

\* C16: the control of a MixedInteger decision is one of the discrete levels
\* 100, 120, 140, 160, 180, 200, for every state.
C16_ControlIsDiscreteLevel ==
    decision.type = "MixedInteger-MPC"
        => \E i \in 1..Len(discreteLevels) : decision.optimal_current = Fx(discreteLevels[i])

\* C19: the hierarchical strategy applies a learned correction only when the
\* corrector reports a confidence; without one the correction is zero and the
\* final control is the control of the operational stage.
C19_CorrectionOnlyWithConfidence ==
    (decision.type = "HE-NMPC" /\ "confidence" \notin DOMAIN neuralNetworkPrediction)
        => /\ decision.neural_correction = 0
           /\ decision.optimal_current
                 = standardMPC(currentState, economicOptimization.setpoints).optimal_current

-----------------------------------------------------------------------------
(***************************************************************************)
(* SpecComparator: the MPCComparator of mpc-comparator.js driven by the    *)
(* dashboard of part_007.  evaluateMPC / fetchMPCComparison run the five   *)
(* strategies one after the other; the four synchronous ones finish within *)
(* the task that started the evaluation, HE_NMPC waits for its delay(10)   *)
(* timer, and until the timer fires other tasks (a click handled by        *)
(* handleMPCSelection) run.                                                *)
(***************************************************************************)
\* computeControl calls made in one behaviour
MaxCalls == 6

\* Date.now() - startTime of a synchronous strategy and of HE_NMPC, in ms
TimeSync == {0, 1}
TimeHE == {10, 12}

ComparatorState ==
    [historicalData |-> historicalData, performanceMetrics |-> performanceMetrics]

\* the loop of evaluateMPC over the synchronous strategies i..4, started with
\* the comparator in state st and `results` collected so far
RECURSIVE evaluateSync(_, _, _, _, _, _, _)
evaluateSync(i, st, results, setpoint, seed, time, timestamp) ==
    IF i > 4 THEN [st |-> st, results |-> results]
    ELSE LET result == syncStrategy(mpcTypes[i], setpoint, seed, st.historicalData)
         IN  evaluateSync(i + 1,
                          trackPerformance(st, mpcTypes[i], result, time, timestamp),
                          Append(results, ControlResult(mpcTypes[i], result, time)),
                          setpoint, seed, time, timestamp + 1)

InitComparator ==
    /\ CompIdle
    /\ StratIdle /\ AllIdle /\ SrvIdle /\ DashIdle /\ FnIdle /\ PlantIdle /\ NetIdle

\* evaluateMPC(scenario) up to the first point where it waits for a timer
StartEvaluate(scenario, seed, time) ==
    /\ evalLoop.phase # "waiting"
    /\ nCalls + Len(mpcTypes) <= MaxCalls
    /\ IF strategyThrows(mpcTypes[1], scenario)
       THEN /\ evalLoop' = [phase |-> "rejected", sp |-> scenario,
                            results |-> <<>>, ranking |-> <<>>]
            /\ nCalls' = nCalls + 1
            /\ UNCHANGED <<historicalData, performanceMetrics, calls>>
       ELSE LET done == evaluateSync(1, ComparatorState, <<>>, scenario, seed, time,
                                     nCalls + 1)
            IN  /\ historicalData' = done.st.historicalData
                /\ performanceMetrics' = done.st.performanceMetrics
                /\ nCalls' = nCalls + Len(mpcTypes)
                /\ calls' = calls \cup {[timestamp |-> nCalls + Len(mpcTypes),
                                         owner |-> "evaluateMPC"]}
                /\ evalLoop' = [phase |-> "waiting", sp |-> scenario,
                                results |-> done.results, ranking |-> <<>>]
    /\ UNCHANGED <<stratVars, allVars, srvVars, dashVars, plantVars, netVars, fnVars>>

\* handleMPCSelection(mpcType): computeControl up to its return or its timer
\* (displayMPCResult and sendControlSignal change no state of the comparator)
UserSelects(mpcType, setpoint, seed, time) ==
    \* MaxCalls leaves room for one evaluation
    /\ nCalls + (IF evalLoop.phase \in {"idle", "rejected"} THEN Len(mpcTypes) ELSE 0)
          < MaxCalls
    /\ nCalls' = nCalls + 1
    /\ IF mpcType = "HE_NMPC"
       THEN /\ calls' = calls \cup {[timestamp |-> nCalls + 1,
                                     owner |-> "handleMPCSelection"]}
            /\ UNCHANGED <<historicalData, performanceMetrics>>
       ELSE LET result == syncStrategy(mpcType, setpoint, seed, historicalData)
                st == trackPerformance(ComparatorState, mpcType, result, time, nCalls + 1)
            IN  /\ historicalData' = st.historicalData
                /\ performanceMetrics' = st.performanceMetrics
                /\ UNCHANGED calls
    /\ UNCHANGED <<evalLoop, stratVars, allVars, srvVars, dashVars, plantVars, netVars, fnVars>>

\* the delay(10) timer of the oldest waiting heNMPC fires: safety layer,
\* trackPerformance, and for evaluateMPC the ranking
TimerFires(temperatureRiskHigh, purityRiskHigh, time) ==
    /\ calls # {}
    /\ LET call == CHOOSE c \in calls : \A d \in calls : c.timestamp <= d.timestamp
           result == heNMPC_C(temperatureRiskHigh, purityRiskHigh)
           st == trackPerformance(ComparatorState, "HE_NMPC", result, time, call.timestamp)
       IN  /\ calls' = calls \ {call}
           /\ historicalData' = st.historicalData
           /\ performanceMetrics' = st.performanceMetrics
           /\ IF call.owner = "evaluateMPC"
              THEN LET results == Append(evalLoop.results,
                                         ControlResult("HE_NMPC", result, time))
                   IN  evalLoop' = [evalLoop EXCEPT !.phase = "done",
                                                    !.results = results,
                                                    !.ranking = rankMPCPerformance(results)]
              ELSE UNCHANGED evalLoop
    /\ UNCHANGED <<nCalls, stratVars, allVars, srvVars, dashVars, plantVars, netVars, fnVars>>

NextComparator ==
    \/ \E rate \in ProductionRates, seed \in Seeds, time \in TimeSync :
            StartEvaluate(Setpoint(rate), seed, time)
    \/ StartEvaluate(NullSetpoint, 0, 0)
    \/ \E mpcType \in MpcTypeSet, rate \in ProductionRates, seed \in Seeds, time \in TimeSync :
            UserSelects(mpcType, Setpoint(rate), seed, time)
    \/ \E temperatureRiskHigh \in BOOLEAN, purityRiskHigh \in BOOLEAN, time \in TimeHE :
            TimerFires(temperatureRiskHigh, purityRiskHigh, time)

SpecComparator == InitComparator /\ [][NextComparator]_vars

\* C2: when a strategy of an evaluation throws, the evaluation still ends with a
\* ranking that holds every strategy that did not throw; the throw never aborts it.
C2_FailureIsContained ==
    evalLoop.phase \in {"done", "rejected"}
        => \A i \in 1..Len(mpcTypes) :
              ~strategyThrows(mpcTypes[i], evalLoop.sp)
                  => \E j \in 1..Len(evalLoop.ranking) :
                        evalLoop.ranking[j].type = mpcTypes[i]

\* C7: the history is written only after every strategy task has completed: a
\* step that changes historicalData leaves no strategy call waiting, of this or
\* of another caller.
C7_HistoryWrittenAfterAllTasks ==
    [][historicalData' # historicalData
          => /\ calls' = {}
             /\ evalLoop'.phase # "waiting"]_vars

\* C9: no non-finite cost or score reaches the accumulated totalCost, the
\* results of an evaluation or its ranking.
C9_CostsFinite ==
    /\ \A t \in DOMAIN performanceMetrics : isFinite(performanceMetrics[t].totalCost)
    /\ \A i \in 1..Len(evalLoop.results) : isFinite(evalLoop.results[i].costTotal)
    /\ \A i \in 1..Len(evalLoop.ranking) : isFinite(evalLoop.ranking[i].score)

\* C22: the control a strategy returns for given arguments and random draws is
\* the one it returns in a comparator without history, whatever was computed
\* before.
C22_DecisionIndependentOfHistory ==
    \A rate \in ProductionRates, seed \in Seeds :
        hybridMPC(Setpoint(rate), seed, historicalData).optimalCurrent
            = hybridMPC(Setpoint(rate), seed, <<>>).optimalCurrent

\* C23: the strategies of an evaluation are all started before any of them has
\* finished: the hybrid strategy, which reads the history when it starts,
\* computes from the history as it was when the evaluation began, not from
\* entries written by strategies of the same evaluation that finished earlier.
C23_StartedWithoutWaiting ==
    [][evalLoop.phase # "waiting" /\ evalLoop'.phase = "waiting"
          => \E seed \in Seeds :
                evalLoop'.results[4].optimalCurrent
                    = hybridMPC(evalLoop'.sp, seed, historicalData).optimalCurrent]_vars

\* C29: for every strategy type, successRate is the number of its computations
\* whose setpointAchievement exceeded 90 divided by totalComputations, and
\* averageTime is totalTime divided by totalComputations (read while the
\* history still holds every computation of the type).
C29_SuccessRateIsRatio ==
    \A t \in DOMAIN performanceMetrics :
        LET metrics == performanceMetrics[t]
            ofType == SelectSeq(historicalData, LAMBDA d : d.mpcType = t)
            achieved == SelectSeq(ofType,
                LAMBDA d : Max(0, Fx(100) - d.trackingError * 50) > Fx(90))
        IN  Len(ofType) = metrics.totalComputations
                => /\ Abs(metrics.successRate * metrics.totalComputations
                          - SCALE * Len(achieved)) <= metrics.totalComputations
                   /\ metrics.averageTime
                          = (metrics.totalTime * SCALE) \div metrics.totalComputations

-----------------------------------------------------------------------------
(***************************************************************************)
(* SpecCompareAll: the MPCComparator of part_008.  runAllMPCComparison     *)
(* starts the five strategies, waits for Promise.all, computes the metrics *)
(* of the results, pushes the run on performanceHistory and ranks.  The    *)
(* strategies settle in any order; the model starts a comparison when the  *)
(* previous one has returned.                                              *)
(***************************************************************************)
MaxComparisons == maxHistory + 1

\* the fields of a strategy result that calculatePerformanceMetrics reads
BareResult ==
    [predicted_states |-> FALSE, cost |-> Undefined, total_cost |-> Undefined,
     computation_time |-> Undefined, optimal_current |-> Fx(150)]
\* the results of the five strategies of one comparison: nothing but a control;
\* the shapes the strategies of part_004 return without, and with, the
\* predicted_states of Standard-MPC
ResultProfiles ==
    LET shaped == [s \in StrategyTypeSet |->
            CASE s = "MixedInteger-MPC" ->
                    [BareResult EXCEPT !.cost = Num(40500), !.computation_time = Num(1500),
                                       !.optimal_current = Fx(165)]
              [] s = "HE-NMPC" ->
                    [BareResult EXCEPT !.total_cost = Num(35000),
                                       !.optimal_current = Fx(202)]
              [] OTHER -> BareResult]
    IN  { [s \in StrategyTypeSet |-> BareResult],
          shaped,
          [shaped EXCEPT !["Standard-MPC"].predicted_states = TRUE,
                         !["Standard-MPC"].cost = Num(1250)] }

\* result.cost || result.total_cost || 4.0 and result.computation_time || 0.1
calculatePerformanceMetrics(results) ==
    [s \in DOMAIN results |->
        [efficiency |-> Fx(75),
         cost |-> jsOr(results[s].cost, jsOr(results[s].total_cost, Fx(4))),
         response_time |-> jsOr(results[s].computation_time, SCALE \div 10),
         stability |-> (9 * SCALE) \div 10,
         constraint_violations |->
            IF results[s].optimal_current < Fx(100) \/ results[s].optimal_current > Fx(200)
            THEN 1 ELSE 0]]

\* calculateStability calls this.calculateVariation, which the class does not
\* define, for a result that has predicted_states
metricsThrow(results) == \E s \in DOMAIN results : results[s].predicted_states

\* weights 0.25, 0.25, 0.15, 0.20, 0.15
algorithmScore(mpcMetrics) ==
    (mpcMetrics.efficiency * 25
     + ((SCALE * SCALE) \div mpcMetrics.cost) * 25
     + ((SCALE * SCALE) \div mpcMetrics.response_time) * 15
     + mpcMetrics.stability * 20
     + (SCALE - mpcMetrics.constraint_violations * SCALE) * 15) \div 100

\* Object.keys(metrics) is the order the results were stored in
rankMPCAlgorithms(metrics) ==
    sort([i \in 1..Len(strategyTypes) |->
            [mpcType |-> strategyTypes[i],
             score |-> Num(algorithmScore(metrics[strategyTypes[i]]))]])

InitCompareAll ==
    /\ AllIdle
    /\ StratIdle /\ CompIdle /\ SrvIdle /\ DashIdle /\ FnIdle /\ PlantIdle /\ NetIdle

\* runAllMPCComparison up to await Promise.all
StartComparison ==
    /\ cmpPhase.phase # "running"
    /\ cmpPhase.run < MaxComparisons
    /\ cmpPhase' = [run |-> cmpPhase.run + 1, phase |-> "running"]
    /\ tasks' = [s \in StrategyTypeSet |-> "pending"]
    /\ clock' = [s \in StrategyTypeSet |-> FALSE]
    /\ cmpOut' = NoOutcome
    /\ UNCHANGED <<performanceHistory, stratVars, compVars, srvVars, dashVars, plantVars, netVars, fnVars>>

\* the time a caller allows strategy s passes while s is computing; the
\* comparator sets no timer, so nothing else changes
DeadlinePasses(s) ==
    /\ cmpPhase.phase = "running"
    /\ tasks[s] = "pending"
    /\ ~clock[s]
    /\ clock' = [clock EXCEPT ![s] = TRUE]
    /\ UNCHANGED <<tasks, cmpPhase, cmpOut, performanceHistory,
                   stratVars, compVars, srvVars, dashVars, plantVars, netVars, fnVars>>

\* the promise of s resolves while another is pending
Resolve(s) ==
    /\ cmpPhase.phase = "running"
    /\ tasks[s] = "pending"
    /\ \E o \in StrategyTypeSet \ {s} : tasks[o] = "pending"
    /\ tasks' = [tasks EXCEPT ![s] = "resolved"]
    /\ UNCHANGED <<cmpPhase, cmpOut, performanceHistory, clock,
                   stratVars, compVars, srvVars, dashVars, plantVars, netVars, fnVars>>

\* the last pending promise resolves: Promise.all resolves and the rest of
\* runAllMPCComparison runs on the results
ResolveLast(s, results) ==
    /\ cmpPhase.phase = "running"
    /\ tasks[s] = "pending"
    /\ \A o \in StrategyTypeSet \ {s} : tasks[o] = "resolved"
    /\ tasks' = [tasks EXCEPT ![s] = "resolved"]
    /\ IF metricsThrow(results)
       THEN /\ cmpPhase' = [cmpPhase EXCEPT !.phase = "failed"]
            /\ cmpOut' = [k |-> "rejected", ranking |-> <<>>]
            /\ UNCHANGED performanceHistory
       ELSE /\ cmpPhase' = [cmpPhase EXCEPT !.phase = "done"]
            /\ performanceHistory' = Append(performanceHistory, [run |-> cmpPhase.run])
            /\ cmpOut' = [k |-> "returned",
                          ranking |-> rankMPCAlgorithms(calculatePerformanceMetrics(results))]
    /\ UNCHANGED <<clock, stratVars, compVars, srvVars, dashVars, plantVars, netVars, fnVars>>

\* the promise of s rejects: Promise.all rejects at once and so does
\* runAllMPCComparison
Reject(s) ==
    /\ cmpPhase.phase = "running"
    /\ tasks[s] = "pending"
    /\ tasks' = [tasks EXCEPT ![s] = "rejected"]
    /\ cmpPhase' = [cmpPhase EXCEPT !.phase = "failed"]
    /\ cmpOut' = [k |-> "rejected", ranking |-> <<>>]
    /\ UNCHANGED <<performanceHistory, clock, stratVars, compVars, srvVars, dashVars, plantVars, netVars, fnVars>>

NextCompareAll ==
    \/ StartComparison
    \/ \E s \in StrategyTypeSet : DeadlinePasses(s)
    \/ \E s \in StrategyTypeSet : Resolve(s)
    \/ \E s \in StrategyTypeSet, results \in ResultProfiles : ResolveLast(s, results)
    \/ \E s \in StrategyTypeSet : Reject(s)

SpecCompareAll == InitCompareAll /\ [][NextCompareAll]_vars

\* C4: a returned ranking is ordered by score descending, and entries of equal
\* score are in ascending order of strategy identifier.
C4_RankingTotalOrder ==
    LET ascending == <<"HE-NMPC", "HEMPC", "MixedInteger-MPC", "Standard-MPC", "Stochastic-MPC">>
        place(id) == CHOOSE i \in 1..Len(ascending) : ascending[i] = id
        ranking == cmpOut.ranking
    IN  \A i \in 1..Len(ranking) : \A j \in (i + 1)..Len(ranking) :
            \/ ranking[i].score.v > ranking[j].score.v
            \/ /\ ranking[i].score.v = ranking[j].score.v
               /\ place(ranking[i].mpcType) < place(ranking[j].mpcType)

\* C5: a strategy that had not finished when its time had passed is left out of
\* the ranking the comparison returns.
C5_LateStrategyLeftOut ==
    cmpPhase.phase = "done"
        => \A i \in 1..Len(cmpOut.ranking) : ~clock[cmpOut.ranking[i].mpcType]

\* C8: the number of entries retained in the history never exceeds the bound.
C8_HistoryBounded ==
    /\ Len(historicalData) <= maxHistory
    /\ Len(performanceHistory) <= maxHistory

-----------------------------------------------------------------------------
(***************************************************************************)
(* SpecServer: GET /api/mpc/compare of the two servers of app.js, both on  *)
(* runCompleteSystem of neural-mpc.js.  A handler waits for the weather    *)
(* fetch and then for the strategies, so requests overlap.                 *)
(***************************************************************************)
realTypes == <<"Standard-MPC", "MixedInteger-MPC", "Stochastic-MPC", "HE-NMPC">>
RealTypeSet == {realTypes[i] : i \in 1..Len(realTypes)}

\* the sets of strategies whose result has success set, as the strategies decide
SuccessSets == {{}, {"Standard-MPC", "HE-NMPC"}, RealTypeSet}

\* baseReliability[mpc.type], in units of 1/SCALE
calculateReliability(type) ==
    CASE type = "Standard-MPC"     -> 8500
      [] type = "MixedInteger-MPC" -> 7800
      [] type = "Stochastic-MPC"   -> 8200
      [] type = "HE-NMPC"          -> 9200
      [] OTHER                     -> 8000

\* the metrics of a successful result without predicted_trajectory and cost,
\* computed in 0.1
calculateRealPerformance(succeeded) ==
    [type \in succeeded |->
        [efficiency |-> Fx(75), cost |-> Fx(4), computation_time |-> SCALE \div 10,
         stability |-> (9 * SCALE) \div 10, reliability |-> calculateReliability(type)]]

\* parseFloat(score.toFixed(3)): rounded to thousandths
toFixed3(x) == ((x + 5) \div 10) * 10

\* weights 0.25, 0.25, 0.15, 0.20, 0.15; the score is rounded after the sort
rankRealMPC(performance) ==
    LET keys == SelectSeq(realTypes, LAMBDA t : t \in DOMAIN performance)
        score(t) ==
            (performance[t].efficiency * 25
             + ((SCALE * SCALE) \div performance[t].cost) * 25
             + ((SCALE * SCALE) \div performance[t].computation_time) * 15
             + performance[t].stability * 20
             + performance[t].reliability * 15) \div 100
        ranked == sort([i \in 1..Len(keys) |-> [mpcType |-> keys[i], score |-> Num(score(keys[i]))]])
    IN  [i \in 1..Len(ranked) |->
            [mpcType |-> ranked[i].mpcType, score |-> Num(toFixed3(ranked[i].score.v))]]

\* the ranking the handler of the second server sends from its catch block
fallbackRanking ==
    <<[mpcType |-> "HE-NMPC", score |-> Num(9500)],
      [mpcType |-> "Stochastic-MPC", score |-> Num(8800)],
      [mpcType |-> "HEMPC", score |-> Num(8200)]>>

\* the catch block of the handler: status 500 and the error, or status 200, the
\* error and a ranking
errorResponse(message) ==
    IF server = "first"
    THEN [NoResponse EXCEPT !.status = 500, !.error = message]
    ELSE [NoResponse EXCEPT !.status = 200, !.error = message, !.ranking = fallbackRanking]

\* the handler after runCompleteSystem returned `ranking` for the results of
\* `types`: the first server reads ranking[0].mpcType before it answers
successResponse(ranking, types) ==
    IF server = "first" /\ ranking = <<>>
    THEN errorResponse("TypeError")
    ELSE [NoResponse EXCEPT !.status = 200, !.ranking = ranking, !.individual_results = types]

InitServer ==
    /\ server \in {"first", "second"}
    /\ weatherUp \in BOOLEAN
    /\ req = [id \in 1..MaxRequests |-> "none"]
    /\ response = [id \in 1..MaxRequests |-> NoResponse]
    /\ StratIdle /\ CompIdle /\ AllIdle /\ DashIdle /\ FnIdle /\ PlantIdle /\ NetIdle

\* the weather API comes and goes
WeatherChanges ==
    /\ weatherUp' = ~weatherUp
    /\ UNCHANGED <<server, req, response, stratVars, compVars, allVars, dashVars, plantVars, netVars, fnVars>>

\* a GET arrives: the handler calls runCompleteSystem, which starts the fetches
Request(id) ==
    /\ req[id] = "none"
    /\ \A other \in 1..(id - 1) : req[other] # "none"
    /\ req' = [req EXCEPT ![id] = "weather"]
    /\ UNCHANGED <<server, weatherUp, response, stratVars, compVars, allVars, dashVars, plantVars, netVars, fnVars>>

\* getRealKenyaWeather settles: runCompleteSystem goes on to the strategies, or
\* it throws 'MPC system failed' and the handler answers from its catch block
WeatherSettles(id) ==
    /\ req[id] = "weather"
    /\ IF weatherUp
       THEN /\ req' = [req EXCEPT ![id] = "strategies"]
            /\ UNCHANGED response
       ELSE /\ req' = [req EXCEPT ![id] = "answered"]
            /\ response' = [response EXCEPT
                   ![id] = errorResponse("MPC system failed: Weather API unavailable")]
    /\ UNCHANGED <<server, weatherUp, stratVars, compVars, allVars, dashVars, plantVars, netVars, fnVars>>

\* the four strategies resolve, the results of `succeeded` carrying success
StrategiesResolve(id, succeeded) ==
    /\ req[id] = "strategies"
    /\ req' = [req EXCEPT ![id] = "answered"]
    /\ response' = [response EXCEPT
           ![id] = successResponse(rankRealMPC(calculateRealPerformance(succeeded)),
                                   RealTypeSet)]
    /\ UNCHANGED <<server, weatherUp, stratVars, compVars, allVars, dashVars, plantVars, netVars, fnVars>>

\* a strategy rejects: Promise.all rejects and runCompleteSystem throws
StrategiesReject(id) ==
    /\ req[id] = "strategies"
    /\ req' = [req EXCEPT ![id] = "answered"]
    /\ response' = [response EXCEPT ![id] = errorResponse("MPC system failed")]
    /\ UNCHANGED <<server, weatherUp, stratVars, compVars, allVars, dashVars, plantVars, netVars, fnVars>>

NextServer ==
    \/ WeatherChanges
    \/ \E id \in 1..MaxRequests : Request(id)
    \/ \E id \in 1..MaxRequests : WeatherSettles(id)
    \/ \E id \in 1..MaxRequests, succeeded \in SuccessSets : StrategiesResolve(id, succeeded)
    \/ \E id \in 1..MaxRequests : StrategiesReject(id)

SpecServer == InitServer /\ [][NextServer]_vars

\* C3: an answered request carries a ranking only of strategies that ran for
\* it, none at all when runCompleteSystem failed, and an error when nothing
\* was ranked.
C3_NoFabricatedRanking ==
    \A id \in 1..MaxRequests :
        req[id] = "answered"
            => /\ \A i \in 1..Len(response[id].ranking) :
                     response[id].ranking[i].mpcType \in response[id].individual_results
               /\ response[id].error # "none" => response[id].ranking = <<>>
               /\ response[id].ranking = <<>> => response[id].error # "none"

\* C21: in an answer that carries a comparison, every strategy that returned a
\* decision has exactly one ranking entry, and no entry names another strategy.
C21_OneEntryPerDecision ==
    \A id \in 1..MaxRequests :
        req[id] = "answered" /\ response[id].error = "none"
            => /\ Len(response[id].ranking) = Cardinality(response[id].individual_results)
               /\ {response[id].ranking[i].mpcType : i \in 1..Len(response[id].ranking)}
                      = response[id].individual_results

-----------------------------------------------------------------------------
(***************************************************************************)
(* SpecDashboard: runComparison of the MPCDashboard of part_006, called on *)
(* load, by the button and by the 30 s interval; the answers to its        *)
(* fetches arrive in any order.                                            *)
(***************************************************************************)
InitDashboard ==
    /\ DashIdle
    /\ StratIdle /\ CompIdle /\ AllIdle /\ SrvIdle /\ FnIdle /\ PlantIdle /\ NetIdle

\* runComparison up to await fetch
RunComparison ==
    /\ generation < MaxGenerations
    /\ generation' = generation + 1
    /\ inflight' = inflight \cup {generation + 1}
    /\ UNCHANGED <<currentData, applied, stratVars, compVars, allVars, srvVars, plantVars, netVars, fnVars>>

\* the answer to call g arrives with a body that holds a comparison:
\* this.currentData = data; this.updateDashboard(data)
AnswerArrives(g) ==
    /\ g \in inflight
    /\ inflight' = inflight \ {g}
    /\ currentData' = [generation |-> g, kind |-> "comparison"]
    /\ applied' = Append(applied, g)
    /\ UNCHANGED <<generation, stratVars, compVars, allVars, srvVars, plantVars, netVars, fnVars>>

\* the answer to call g is the error body of the server: this.currentData is
\* set, updateDashboard throws on data.comparison.ranking and the catch logs
ErrorArrives(g) ==
    /\ g \in inflight
    /\ inflight' = inflight \ {g}
    /\ currentData' = [generation |-> g, kind |-> "error"]
    /\ UNCHANGED <<generation, applied, stratVars, compVars, allVars, srvVars, plantVars, netVars, fnVars>>

\* fetch or response.json() rejects: the catch logs
FetchFails(g) ==
    /\ g \in inflight
    /\ inflight' = inflight \ {g}
    /\ UNCHANGED <<generation, currentData, applied, stratVars, compVars, allVars, srvVars, plantVars, netVars, fnVars>>

NextDashboard ==
    \/ RunComparison
    \/ \E g \in 1..MaxGenerations : AnswerArrives(g)
    \/ \E g \in 1..MaxGenerations : ErrorArrives(g)
    \/ \E g \in 1..MaxGenerations : FetchFails(g)

SpecDashboard == InitDashboard /\ [][NextDashboard]_vars

\* C6: the answer to an earlier runComparison never replaces the stored data of
\* a later one and is never shown after the data of a later one.
C6_StaleResultDiscarded ==
    [][/\ currentData'.generation >= currentData.generation
       /\ \A i \in 1..Len(applied) : applied'[Len(applied')] >= applied[i]]_vars

-----------------------------------------------------------------------------
(***************************************************************************)
(* SpecFunctions: the functions the strategies are built from, each        *)
(* applied by a caller to arguments of its choice.  The arguments stay the *)
(* same for the whole behaviour; output keeps, per function, what its last *)
(* application returned.                                                   *)
(***************************************************************************)
\* longest control sequence handed to predictTrajectory
MaxSeqLen == 3

\* generateScenarios of MPCAlgorithms: `count` (numScenarios) objects with four arrays of
\* `horizon` random numbers each; the model keeps the keys and the array length
generateScenarios(count, horizon) ==
    [i \in 1..count |->
        [fields |-> {"electricityPrice", "demandUncertainty", "efficiencyVariation",
                     "temperatureNoise"},
         probability |-> 0, length |-> horizon]]

InitFunctions ==
    \* the plant reading of runCompleteSystem and one for which the descent of
    \* solveQP leaves the lower bound; control sequences shorter than the horizon;
    \* production setpoints below, inside and above the current range
    /\ input \in [currentState : {<<659000, 725000>>, <<Fx(-200), 725000>>},
                  controlSequence :
                      UNION {[1..n -> {Fx(100), Fx(200)}] : n \in 1..MaxSeqLen},
                  setpoint : {Setpoint(rate) : rate \in {Fx(50), Fx(150), Fx(250)}}]
    /\ output = NoOutput
    /\ StratIdle /\ CompIdle /\ AllIdle /\ SrvIdle /\ DashIdle /\ PlantIdle /\ NetIdle

\* solveQP with the weights of standardMPC except R[0][0]
CallSolveQP(R) ==
    /\ output' = [output EXCEPT !.solveQP =
                    [done |-> TRUE, R |-> R,
                     current |-> solveQP(input.currentState, economicOptimization.setpoints,
                                         StdQ, R)[1]]]
    /\ UNCHANGED <<input, stratVars, compVars, allVars, srvVars, dashVars, plantVars, netVars>>

CallPredictTrajectory ==
    /\ output' = [output EXCEPT !.predictTrajectory =
                    [done |-> TRUE,
                     trajectory |-> predictTrajectory(input.currentState,
                                                      input.controlSequence)]]
    /\ UNCHANGED <<input, stratVars, compVars, allVars, srvVars, dashVars, plantVars, netVars>>

CallDeterministicMPC ==
    /\ output' = [output EXCEPT !.deterministicMPC =
                    [done |-> TRUE,
                     optimalCurrent |-> deterministicMPC(input.setpoint).optimalCurrent]]
    /\ UNCHANGED <<input, stratVars, compVars, allVars, srvVars, dashVars, plantVars, netVars>>

CallRobustMPC ==
    /\ LET result == robustMPC(input.setpoint)
       IN  output' = [output EXCEPT !.robustMPC =
                        [done |-> TRUE, optimalCurrent |-> result.optimalCurrent,
                         robustness |-> result.robustness]]
    /\ UNCHANGED <<input, stratVars, compVars, allVars, srvVars, dashVars, plantVars, netVars>>

\* seed stands for the draws of math.random
CallStochasticMPC(seed) ==
    /\ LET result == stochasticMPC_memo(input.setpoint, seed)
       IN  output' = [output EXCEPT !.stochasticMPC =
                        [done |-> TRUE, seed |-> seed,
                         optimalCurrent |-> result.optimalCurrent,
                         reliability |-> result.reliability]]
    /\ UNCHANGED <<input, stratVars, compVars, allVars, srvVars, dashVars, plantVars, netVars>>

\* stochasticMPC of MPCAlgorithms up to const scenarios = this.generateScenarios(...)
CallGenerateScenarios(count) ==
    /\ output' = [output EXCEPT !.generateScenarios =
                    [done |-> TRUE, scenarios |-> generateScenarios(count, 8)]]
    /\ UNCHANGED <<input, stratVars, compVars, allVars, srvVars, dashVars, plantVars, netVars>>

NextFunctions ==
    \* R[0][0] in tenths: the 0.1 of standardMPC and heavier control weights
    \/ \E R \in {StdR, 2, 4} : CallSolveQP(R)
    \/ CallPredictTrajectory
    \/ CallDeterministicMPC
    \/ CallRobustMPC
    \/ \E seed \in Seeds : CallStochasticMPC(seed)
    \/ \E count \in {1, 20} : CallGenerateScenarios(count)

SpecFunctions == InitFunctions /\ [][NextFunctions]_vars

\* C12: every scenario of a generated scenario set carries a probability weight,
\* and the weights of the set sum to 1, whatever number of scenarios was asked for.
C12_WeightsSumToOne ==
    output.generateScenarios.done
        => LET scenarios == output.generateScenarios.scenarios
           IN  /\ \A i \in 1..Len(scenarios) : "probability" \in scenarios[i].fields
               /\ SumSeq([i \in 1..Len(scenarios) |-> scenarios[i].probability]) = SCALE

\* C13: the robustness margin Robust reports is never negative and never greater
\* than the margin of the control Deterministic returns for the same setpoint.
C13_RobustMarginBelowDeterministic ==
    (output.robustMPC.done /\ output.deterministicMPC.done)
        => /\ output.robustMPC.robustness.k = "num"
           /\ output.robustMPC.robustness.v >= 0
           /\ output.robustMPC.robustness.v
                 <= calculateRobustness(output.deterministicMPC.optimalCurrent)

controlCost(R, current) == (R * Sq(current)) \div 10

C20_HoldsLastControl ==
    output.predictTrajectory.done
        => LET controlSequence == input.controlSequence
               trajectory == output.predictTrajectory.trajectory
           IN  /\ Len(trajectory) = predictionHorizon + 1
               /\ \A k \in 1..predictionHorizon :
                     trajectory[k + 1] =
                        stepPEM(trajectory[k],
                                IF k <= Len(controlSequence) THEN controlSequence[k]
                                ELSE controlSequence[Len(controlSequence)])

C20_Witness ==
    /\ output.predictTrajectory.done
    /\ input.controlSequence = <<Fx(100), Fx(200)>>
    /\ output.predictTrajectory.trajectory[2] = stepPEM(input.currentState, Fx(100))
    /\ output.predictTrajectory.trajectory[predictionHorizon + 1]
          = stepPEM(output.predictTrajectory.trajectory[predictionHorizon], Fx(200))

-----------------------------------------------------------------------------
(***************************************************************************)
(* SpecPlant: the way of a control to the plant.  The economic schedule of *)
(* MPCAlgorithms (src/mpc-algorithms.js), forwardToMATLAB of the           *)
(* SimulinkBridge of src/simulink-bridge.js and applyControl of            *)
(* RealKenyaNeuralMPC (src/neural-mpc.js) behind POST /api/control/apply,  *)
(* each called with arguments of the caller's choice.                      *)
(***************************************************************************)
\* this.constraints.outputs.h2_production.max (0.05)
h2ProductionMax == 500

\* the 24 prices of generateTimeVaryingPrices, index h + 1 for hour h
generateTimeVaryingPrices ==
    [i \in 1..24 |->
        LET h == i - 1
        IN  1200 + (IF h >= 7 /\ h <= 19 THEN 400 ELSE 0)
                 + (IF h >= 17 /\ h <= 21 THEN 200 ELSE 0)
                 - (IF h >= 0 /\ h <= 6 THEN 300 ELSE 0)]

\* the production array of optimizeEconomicSchedule(horizon) when
\* new Date().getHours() is `now`
optimizeEconomicSchedule(now, horizon) ==
    [i \in 1..horizon |->
        LET hour == (now + i - 1) % 24
            electricityPrice == generateTimeVaryingPrices[hour + 1]
            productionLevel ==
                Max((3 * SCALE) \div 10, SCALE - ((electricityPrice - 1000) * SCALE) \div 800)
        IN  (productionLevel * h2ProductionMax) \div SCALE]

\* control.optimal_current > 200 || control.optimal_current < 100 fails
safetyCheck(control) ==
    ~(control.optimal_current > Fx(200) \/ control.optimal_current < Fx(100))

\* the validatedControl that forwardToMATLAB hands to mqttClient.sendToMATLAB
forwardToMATLAB(control) ==
    [optimal_current |-> control.optimal_current, safety_checked |-> safetyCheck(control)]

InitPlant ==
    /\ PlantIdle
    /\ StratIdle /\ CompIdle /\ AllIdle /\ SrvIdle /\ DashIdle /\ FnIdle /\ NetIdle

\* economicLayerOptimization(horizon) of MPCAlgorithms at hour `now`
CallOptimizeEconomicSchedule(now, horizon) ==
    /\ schedule' = [done |-> TRUE, hour |-> now,
                    production |-> optimizeEconomicSchedule(now, horizon)]
    /\ UNCHANGED <<sent, plant, stratVars, compVars, allVars, srvVars, dashVars, fnVars,
                   netVars>>

\* a neural control arrives: onNeuralControl calls forwardToMATLAB(control)
CallForwardToMATLAB(control) ==
    /\ sent' = sent \cup {forwardToMATLAB(control)}
    /\ UNCHANGED <<schedule, plant, stratVars, compVars, allVars, srvVars, dashVars, fnVars,
                   netVars>>

\* POST /api/control/apply: applyControl writes currentState.current and then
\* builds its answer, reading currentState.current for previous_current
applyControl(mpc_type, optimal_current) ==
    /\ LET written == [plant EXCEPT !.current = optimal_current]
       IN  plant' = [written EXCEPT !.status = "applied", !.mpc_type = mpc_type,
                                    !.previous_current = written.current,
                                    !.new_current = optimal_current]
    /\ UNCHANGED <<schedule, sent, stratVars, compVars, allVars, srvVars, dashVars, fnVars,
                   netVars>>

NextPlant ==
    \/ \E now \in 0..23, horizon \in {12, 24} : CallOptimizeEconomicSchedule(now, horizon)
    \/ \E current \in {Fx(50), Fx(100), Fx(150), Fx(200), Fx(250)} :
            CallForwardToMATLAB([optimal_current |-> current])
    \/ \E mpc_type \in {"HE_NMPC", "STOCHASTIC_MPC"}, current \in {Fx(100), Fx(150), Fx(200)} :
            applyControl(mpc_type, current)

SpecPlant == InitPlant /\ [][NextPlant]_vars

\* C24: the economic stage selects only feasible values: every scheduled hourly
\* production lies between 0 and h2_production.max, and the current of the
\* economic layer lies between the current bounds.
C24_ScheduleWithinRange ==
    /\ \A i \in 1..Len(schedule.production) :
            schedule.production[i] >= 0 /\ schedule.production[i] <= h2ProductionMax
    /\ economicLayerOptimization.optimalCurrent >= Fx(currentMin)
    /\ economicLayerOptimization.optimalCurrent <= Fx(currentMax)

\* C27: no message handed to MATLAB carries an optimal_current outside
\* [100, 200]: a control that fails safetyCheck is not forwarded.
C27_OnlySafeControlsForwarded ==
    \A message \in sent :
        message.optimal_current >= Fx(100) /\ message.optimal_current <= Fx(200)

\* C28: a call of applyControl sets the plant current to c and answers with
\* previous_current the current in effect before the call and new_current c.
C28_PreviousCurrentIsOld ==
    [][plant' # plant
          => /\ plant'.new_current = plant'.current
             /\ plant'.previous_current = plant.current]_vars

-----------------------------------------------------------------------------
(***************************************************************************)
(* SpecMQTT: the MQTTClient of src/mqtt.js.  The page calls connect() once *)
(* and reconnect() when it likes; the Paho library calls onSuccess or      *)
(* onFailure for a connect, onConnectionLost for a connection that breaks, *)
(* and onSuccess or onFailure for a subscribe request.  A Paho client that *)
(* failed or lost its connection calls nothing any more; its id is free    *)
(* for the next client.  disconnect() is left out.                         *)
(***************************************************************************)
\* this.maxReconnectAttempts
maxReconnectAttempts == 5

\* the topics onConnect subscribes to
Topics ==
    {"electrolyzer/bill/data", "electrolyzer/simulink/out", "electrolyzer/bill/upper_commands",
     "electrolyzer/bill/commands", "electrolyzer/mpc/comparison"}

\* scheduleReconnect while the client is `client`: one more attempt and one
\* more timer, or nothing once maxReconnectAttempts is reached
scheduleReconnect(client) ==
    IF client.reconnectAttempts < maxReconnectAttempts
    THEN /\ mqtt' = [client EXCEPT !.reconnectAttempts = client.reconnectAttempts + 1]
         /\ timers' = timers + 1
    ELSE /\ mqtt' = client
         /\ UNCHANGED timers

\* connect(): a new Paho client replaces this.client and starts to connect
connect ==
    /\ \E id \in 1..MaxClients :
            /\ paho[id] = "none"
            /\ \A other \in 1..(id - 1) : paho[other] # "none"
            /\ paho' = [paho EXCEPT ![id] = "connecting"]
            /\ mqtt' = [mqtt EXCEPT !.client = id]
    /\ UNCHANGED <<subs, acks>>

InitMQTT ==
    /\ NetIdle
    /\ StratIdle /\ CompIdle /\ AllIdle /\ SrvIdle /\ DashIdle /\ FnIdle /\ PlantIdle

\* the page calls connect() after construction
PageConnects ==
    /\ mqtt.client = 0
    /\ connect
    /\ UNCHANGED <<timers, bridge, sockets, stratVars, compVars, allVars, srvVars, dashVars,
                   fnVars, plantVars>>

\* reconnect(): connect() unless isConnected
reconnect ==
    /\ mqtt.client # 0
    /\ ~mqtt.isConnected
    /\ connect
    /\ UNCHANGED <<timers, bridge, sockets, stratVars, compVars, allVars, srvVars, dashVars,
                   fnVars, plantVars>>

\* a timer of scheduleReconnect fires: connect()
ReconnectTimerFires ==
    /\ timers > 0
    /\ timers' = timers - 1
    /\ connect
    /\ UNCHANGED <<bridge, sockets, stratVars, compVars, allVars, srvVars, dashVars, fnVars,
                   plantVars>>

\* onSuccess of the connect of Paho client id: onConnect.  subscribe(topic)
\* skips a topic of subscribedTopics; this.client.subscribe throws when
\* this.client is not the client that connected and is not connected itself
onConnect(id) ==
    /\ paho[id] = "connecting"
    /\ paho' = [paho EXCEPT ![id] = "connected"]
    /\ mqtt' = [mqtt EXCEPT !.isConnected = TRUE, !.reconnectAttempts = 0]
    /\ LET requested == Topics \ mqtt.subscribedTopics
       IN  IF paho'[mqtt.client] = "connected"
           THEN /\ subs' = [subs EXCEPT ![mqtt.client] = subs[mqtt.client] \cup requested]
                /\ acks' = acks \cup {<<mqtt.client, topic>> : topic \in requested}
           ELSE UNCHANGED <<subs, acks>>
    /\ UNCHANGED <<timers, bridge, sockets, stratVars, compVars, allVars, srvVars, dashVars,
                   fnVars, plantVars>>

\* onFailure of the connect of Paho client id
onConnectFailure(id) ==
    /\ paho[id] = "connecting"
    /\ timers < MaxTimers
    /\ paho' = [paho EXCEPT ![id] = "none"]
    /\ scheduleReconnect([mqtt EXCEPT !.isConnected = FALSE])
    /\ UNCHANGED <<subs, acks, bridge, sockets, stratVars, compVars, allVars, srvVars,
                   dashVars, fnVars, plantVars>>

\* the connection of Paho client id breaks; its outstanding requests are never
\* answered
onConnectionLost(id) ==
    /\ paho[id] = "connected"
    /\ timers < MaxTimers
    /\ paho' = [paho EXCEPT ![id] = "none"]
    /\ subs' = [subs EXCEPT ![id] = {}]
    /\ acks' = {ack \in acks : ack[1] # id}
    /\ scheduleReconnect([mqtt EXCEPT !.isConnected = FALSE])
    /\ UNCHANGED <<bridge, sockets, stratVars, compVars, allVars, srvVars, dashVars, fnVars,
                   plantVars>>

\* the broker answers the subscribe request of client id for topic: onSuccess
\* adds the topic to subscribedTopics, onFailure logs
SubscribeAnswered(id, topic, granted) ==
    /\ <<id, topic>> \in acks
    /\ acks' = acks \ {<<id, topic>>}
    /\ mqtt' = IF granted
               THEN [mqtt EXCEPT !.subscribedTopics = mqtt.subscribedTopics \cup {topic}]
               ELSE mqtt
    /\ UNCHANGED <<paho, subs, timers, bridge, sockets, stratVars, compVars, allVars,
                   srvVars, dashVars, fnVars, plantVars>>

NextMQTT ==
    \/ PageConnects
    \/ reconnect
    \/ ReconnectTimerFires
    \/ \E id \in 1..MaxClients : onConnect(id)
    \/ \E id \in 1..MaxClients : onConnectFailure(id)
    \/ \E id \in 1..MaxClients : onConnectionLost(id)
    \/ \E id \in 1..MaxClients, topic \in Topics, granted \in BOOLEAN :
            SubscribeAnswered(id, topic, granted)

SpecMQTT == InitMQTT /\ [][NextMQTT]_vars

\* C25: whenever the client becomes connected through the Paho client in use,
\* on the first connect and on a reconnect after a lost connection, a subscribe
\* request for each of the five topics has been issued on that Paho client.
C25_SubscribedOnEveryConnect ==
    [][~mqtt.isConnected /\ mqtt'.isConnected /\ paho'[mqtt'.client] = "connected"
          => subs'[mqtt'.client] = Topics]_vars

\* C26: reconnectAttempts stays within 0..maxReconnectAttempts, a successful
\* connect resets it, no connect is scheduled once it has reached the maximum,
\* and at most one reconnect timer is pending.
C26_AttemptsBoundedOneTimer ==
    /\ mqtt.reconnectAttempts \in 0..maxReconnectAttempts
    /\ timers <= 1

-----------------------------------------------------------------------------
(***************************************************************************)
(* SpecBridge: the TCP SimulinkBridge of src/mqtt.js.  A socket is known   *)
(* by its client id (remote address and port); it is open from its         *)
(* connection until the peer closes it or the bridge destroys it, and its  *)
(* 'close' event is handled in a later turn of the event loop.             *)
(***************************************************************************)
InitBridge ==
    /\ NetIdle
    /\ StratIdle /\ CompIdle /\ AllIdle /\ SrvIdle /\ DashIdle /\ FnIdle /\ PlantIdle

\* the connection listener of net.createServer
Connection(id) ==
    /\ bridge.listening
    /\ sockets[id] = "none"
    /\ sockets' = [sockets EXCEPT ![id] = "open"]
    /\ bridge' = [bridge EXCEPT !.clients = bridge.clients \cup {id}, !.isConnected = TRUE]
    /\ UNCHANGED <<mqtt, paho, subs, acks, timers, stratVars, compVars, allVars, srvVars,
                   dashVars, fnVars, plantVars>>

\* the 'close' listener of a socket that the peer closed or the bridge destroyed
Close(id) ==
    /\ sockets[id] \in {"open", "destroyed"}
    /\ sockets' = [sockets EXCEPT ![id] = "none"]
    /\ LET clients == bridge.clients \ {id}
       IN  bridge' = [bridge EXCEPT !.clients = clients, !.isConnected = clients # {}]
    /\ UNCHANGED <<mqtt, paho, subs, acks, timers, stratVars, compVars, allVars, srvVars,
                   dashVars, fnVars, plantVars>>

\* disconnectClient(clientId) for a client of the map; for another id it does
\* nothing
disconnectClient(id) ==
    /\ id \in bridge.clients
    /\ sockets' = [sockets EXCEPT ![id] = "destroyed"]
    /\ bridge' = [bridge EXCEPT !.clients = bridge.clients \ {id}]
    /\ UNCHANGED <<mqtt, paho, subs, acks, timers, stratVars, compVars, allVars, srvVars,
                   dashVars, fnVars, plantVars>>

\* shutdown(): destroys every socket of the map, clears the map, closes the server
shutdown ==
    /\ bridge.listening
    /\ sockets' = [id \in 1..MaxSockets |->
                      IF id \in bridge.clients THEN "destroyed" ELSE sockets[id]]
    /\ bridge' = [bridge EXCEPT !.clients = {}, !.listening = FALSE]
    /\ UNCHANGED <<mqtt, paho, subs, acks, timers, stratVars, compVars, allVars, srvVars,
                   dashVars, fnVars, plantVars>>

NextBridge ==
    \/ \E id \in 1..MaxSockets : Connection(id)
    \/ \E id \in 1..MaxSockets : Close(id)
    \/ \E id \in 1..MaxSockets : disconnectClient(id)
    \/ shutdown

SpecBridge == InitBridge /\ [][NextBridge]_vars

\* C30: after every handled event isConnected is true exactly when the client
\* map is non-empty, and the map holds exactly the sockets that are connected
\* and not closed.
C30_ConnectedIffClients ==
    /\ bridge.isConnected <=> bridge.clients # {}
    /\ bridge.clients = {id \in 1..MaxSockets : sockets[id] = "open"}

=============================================================================
